---------------------------- MODULE Spec2Model ----------------------------
(***************************************************************************)
(* A model of the trading bot's decision pipeline (src/main.py):           *)
(*   - MarketDataManager: the ttl cache of quotes and bar tables           *)
(*   - _parse_json_response: the tolerant parser of the model's text       *)
(*   - run_analysis / execute_order: the trade gate and the order sizer    *)
(*                                                                         *)
(* Texts are sequences of lexemes.  A lexeme stands for a run of           *)
(* characters that the regular expressions and the JSON grammar treat as   *)
(* one unit: a brace, a code fence (three backticks), the word json, a     *)
(* newline, a space, a prose word, a comma, a number literal, a quote, and *)
(* a whole "key": value member.                                            *)
(***************************************************************************)
EXTENDS Integers, Sequences, FiniteSets, TLC

(***************************************************************************)
(*                         Lexemes and JSON values                         *)
(***************************************************************************)

\* A lexeme: t is its class; key/ty/s/n carry a member's key and value;
\* esc says the lexeme is written backslash-escaped (inside a JSON string).
Tok(t) == [t |-> t, key |-> "", ty |-> "", s |-> "", n |-> 0, esc |-> FALSE]

LB == Tok("{")
RB == Tok("}")
FENCE == Tok("fence")
JSONWORD == Tok("json")
NL == Tok("nl")
SP == Tok("sp")
WORD == Tok("word")
COMMA == Tok(",")
QUOTE == Tok("quote")

\* the number literal n, e.g. 42
NumTok(n) == [t |-> "num", key |-> "", ty |-> "num", s |-> "", n |-> n, esc |-> FALSE]

\* the member  "key": value  with a string, number or null value
Member(key, ty, s, n) == [t |-> "member", key |-> key, ty |-> ty, s |-> s, n |-> n, esc |-> FALSE]

MStr(key, s) == Member(key, "str", s, 0)
MNum(key, n) == Member(key, "num", "", n)
MNull(key) == Member(key, "null", "", 0)

\* the opening  "key":  of a member whose value is a spelled-out string
KeyTok(key) == [t |-> "key", key |-> key, ty |-> "", s |-> "", n |-> 0, esc |-> FALSE]

\* a value stored in a parsed object; txt is the content of a spelled-out string
Val(ty, s, n, txt) == [ty |-> ty, s |-> s, n |-> n, txt |-> txt]

StrVal(s) == Val("str", s, 0, <<>>)
NumVal(n) == Val("num", "", n, <<>>)
NullVal == Val("null", "", 0, <<>>)
TxtVal(txt) == Val("txt", "", 0, txt)

NoFields == [k \in {} |-> NullVal]

\* what json.loads returns: a dict, or another JSON value (here: a number,
\* kept as the number literals that spell its digits)
DictOf(fields) == [tag |-> "dict", fields |-> fields, digits |-> <<>>]
NumberOf(digits) == [tag |-> "num", fields |-> NoFields, digits |-> digits]
NoneValue == [tag |-> "none", fields |-> NoFields, digits |-> <<>>]

\* a raw newline (an escaped one is a backslash and a letter)
IsNl(tok) == tok.t = "nl" /\ ~tok.esc

\* what \s and str.strip() take for whitespace
IsWs(tok) == tok.t \in {"nl", "sp"} /\ ~tok.esc

\* lexemes that contain a quote character
HasQuote(tok) == tok.t \in {"quote", "member", "key"}

(***************************************************************************)
(*                    str.strip, re.sub, str.strip(backtick)               *)
(***************************************************************************)

\* the least member of a set of indices, or none when the set is empty
MinOr(hits, none) ==
    IF hits = {} THEN none ELSE CHOOSE j \in hits : \A k \in hits : j <= k

\* the greatest member of a set of indices, or none when the set is empty
MaxOr(hits, none) ==
    IF hits = {} THEN none ELSE CHOOSE j \in hits : \A k \in hits : k <= j

\* s without the lexemes at the indices in gone
Without(s, gone) ==
    LET kept == (1..Len(s)) \ gone
        Nth(k) == CHOOSE i \in kept : Cardinality({j \in kept : j <= i}) = k
    IN  [k \in 1..Cardinality(kept) |-> s[Nth(k)]]

LStripWs(s) == SubSeq(s, MinOr({j \in 1..Len(s) : ~IsWs(s[j])}, Len(s) + 1), Len(s))

RStripWs(s) == SubSeq(s, 1, MaxOr({j \in 1..Len(s) : ~IsWs(s[j])}, 0))

\* raw_text.strip()
StripWs(s) == RStripWs(LStripWs(s))

\* ^ under re.MULTILINE: the start of the text or just after a newline
AtLineStart(s, i) == i = 1 \/ IsNl(s[i - 1])

\* the first index >= i that is not whitespace: where \s* stops
SkipWs(s, i) == MinOr({j \in i..Len(s) : ~IsWs(s[j])}, Len(s) + 1)

\* line 254, re.sub with re.MULTILINE: every fence at a line start that the
\* word json follows is removed with the word and the whitespace after it
SubFenceJson(s) ==
    LET starts == {i \in 1..(Len(s) - 1) :
                     AtLineStart(s, i) /\ s[i].t = "fence" /\ s[i + 1].t = "json"}
    IN  Without(s, UNION {i..(SkipWs(s, i + 2) - 1) : i \in starts})

\* a substitution that is not anchored at line starts: it also removes the
\* fences inside a line, which C9 tells apart
SubFenceAnywhere(s) ==
    LET starts == {i \in 1..Len(s) : s[i].t = "fence"}
    IN  Without(s, UNION {i..(SkipWs(s, i + 1) - 1) : i \in starts})

\* line 255, re.sub with re.MULTILINE: every fence at a line start is removed
\* with the whitespace after it
SubFence(s) ==
    LET starts == {i \in 1..Len(s) : AtLineStart(s, i) /\ s[i].t = "fence"}
    IN  Without(s, UNION {i..(SkipWs(s, i + 1) - 1) : i \in starts})

\* line 256, text.strip of backticks
StripTicks(s) ==
    LET other == {j \in 1..Len(s) : s[j].t # "fence"}
    IN  SubSeq(s, MinOr(other, Len(s) + 1), MaxOr(other, 0))

\* lines 252-256: the text handed to json.loads
Preprocess(raw) == StripTicks(SubFence(SubFenceJson(StripWs(raw))))

(***************************************************************************)
(*                               json.loads                                *)
(***************************************************************************)

Unescape(tok) == [tok EXCEPT !.esc = FALSE]

\* what may not stand as it is inside a string literal: a raw newline, a
\* quote that is not escaped, and a backslash before a lexeme that needs none
EndsString(tok) ==
    IF tok.esc THEN ~(HasQuote(tok) \/ tok.t = "nl") ELSE HasQuote(tok) \/ tok.t = "nl"

\* The string literal whose content starts at index i: the index of its
\* closing quote, or 0 when the literal is malformed or never closed.
StringEnd(s, i) ==
    LET j == MinOr({k \in i..Len(s) : EndsString(s[k])}, Len(s) + 1)
    IN  IF j <= Len(s) /\ s[j].t = "quote" /\ ~s[j].esc THEN j ELSE 0

StringContent(s, i, j) == [k \in 1..(j - i) |-> Unescape(s[i + k - 1])]

Put(fields, key, v) ==
    [k \in (DOMAIN fields) \cup {key} |-> IF k = key THEN v ELSE fields[k]]

\* The members of an object, from index i on, up to the closing brace, which
\* must be the last lexeme.  expect is "first" (a member or the closing
\* brace), "member" (after a comma) or "sep" (a comma or the closing brace).
\* A repeated key keeps its last value.
RECURSIVE ParseMembers(_, _, _, _)
ParseMembers(s, i, fields, expect) ==
    IF i > Len(s) THEN [ok |-> FALSE, val |-> NoneValue]
    ELSE IF IsWs(s[i]) THEN ParseMembers(s, i + 1, fields, expect)
    ELSE IF s[i].esc THEN [ok |-> FALSE, val |-> NoneValue]
    ELSE IF s[i].t = "}"
         THEN IF expect \in {"first", "sep"} /\ i = Len(s)
              THEN [ok |-> TRUE, val |-> DictOf(fields)]
              ELSE [ok |-> FALSE, val |-> NoneValue]
    ELSE IF s[i].t = ","
         THEN IF expect = "sep"
              THEN ParseMembers(s, i + 1, fields, "member")
              ELSE [ok |-> FALSE, val |-> NoneValue]
    ELSE IF s[i].t = "member"
         THEN IF expect \in {"first", "member"}
              THEN ParseMembers(s, i + 1,
                                Put(fields, s[i].key, Val(s[i].ty, s[i].s, s[i].n, <<>>)),
                                "sep")
              ELSE [ok |-> FALSE, val |-> NoneValue]
    ELSE IF s[i].t = "key"
         THEN LET q == SkipWs(s, i + 1)
                  e == IF q <= Len(s) /\ s[q].t = "quote" /\ ~s[q].esc
                       THEN StringEnd(s, q + 1) ELSE 0
              IN  IF expect \in {"first", "member"} /\ e # 0
                  THEN ParseMembers(s, e + 1,
                                    Put(fields, s[i].key, TxtVal(StringContent(s, q + 1, e))),
                                    "sep")
                  ELSE [ok |-> FALSE, val |-> NoneValue]
    ELSE [ok |-> FALSE, val |-> NoneValue]

\* json.loads(text): [ok |-> FALSE] stands for json.JSONDecodeError
JsonLoads(text) ==
    LET s == StripWs(text)
    IN  IF s = <<>> THEN [ok |-> FALSE, val |-> NoneValue]
        ELSE IF s[1].esc THEN [ok |-> FALSE, val |-> NoneValue]
        ELSE IF s[1].t = "num"
             THEN IF \A i \in 1..Len(s) : s[i].t = "num" /\ ~s[i].esc
                  THEN [ok |-> TRUE, val |-> NumberOf([i \in 1..Len(s) |-> s[i].n])]
                  ELSE [ok |-> FALSE, val |-> NoneValue]
        ELSE IF s[1].t = "{" THEN ParseMembers(s, 2, NoFields, "first")
        ELSE [ok |-> FALSE, val |-> NoneValue]

(***************************************************************************)
(*                          _parse_json_response                           *)
(***************************************************************************)

\* a search that is not greedy: it stops at the first closing brace after
\* the first opening one, which C8 tells apart
SearchBracesShortest(s) ==
    LET a == MinOr({j \in 1..Len(s) : s[j].t = "{"}, Len(s) + 1)
        b == MinOr({j \in 1..Len(s) : s[j].t = "}" /\ j > a}, 0)
    IN  IF a <= Len(s) /\ b > a
        THEN [found |-> TRUE, text |-> SubSeq(s, a, b)]
        ELSE [found |-> FALSE, text |-> <<>>]

\* line 265, re.search of a brace, anything (greedy, newlines too), a brace:
\* from the first opening brace to the last closing brace after it
SearchBraces(s) ==
    LET a == MinOr({j \in 1..Len(s) : s[j].t = "{"}, Len(s) + 1)
        b == MaxOr({j \in 1..Len(s) : s[j].t = "}"}, 0)
    IN  IF a <= Len(s) /\ b > a
        THEN [found |-> TRUE, text |-> SubSeq(s, a, b)]
        ELSE [found |-> FALSE, text |-> <<>>]

SnippetLen == 100

Take(s, n) == SubSeq(s, 1, IF Len(s) < n THEN Len(s) ELSE n)

\* raw_text[:100].replace('\n', ' ')
RawSnippet(raw) ==
    LET cut == Take(raw, SnippetLen)
    IN  [k \in 1..Len(cut) |-> IF IsNl(cut[k]) THEN SP ELSE cut[k]]

ReasonNoJson == "parse error: no valid JSON object found"
ReasonDecode == "parse error: JSONDecodeError"

\* lines 276-281: the ERROR decision built by the except branch
ErrorDecision(raw, reason) ==
    DictOf([k \in {"action", "confidence", "reason", "raw_snippet"} |->
              CASE k = "action" -> StrVal("ERROR")
                [] k = "confidence" -> NumVal(0)
                [] k = "reason" -> StrVal(reason)
                [] OTHER -> TxtVal(RawSnippet(raw))])

\* lines 245-281: [raised, val]; raised says an exception left the function
ParseJsonResponse(raw) ==
    LET text == Preprocess(raw)
        whole == JsonLoads(text)
        m == SearchBraces(text)
        part == JsonLoads(m.text)
    IN  IF whole.ok THEN [raised |-> FALSE, val |-> whole.val]
        ELSE IF m.found
             THEN IF part.ok
                  THEN [raised |-> FALSE, val |-> part.val]
                  ELSE [raised |-> FALSE, val |-> ErrorDecision(raw, ReasonDecode)]
             ELSE [raised |-> FALSE, val |-> ErrorDecision(raw, ReasonNoJson)]

(***************************************************************************)
(*                 json.dumps of a decision (re-serialization)             *)
(***************************************************************************)

\* json.dumps writes a quote and a newline inside a string backslash-escaped
Escape(tok) == IF HasQuote(tok) \/ tok.t = "nl" THEN [tok EXCEPT !.esc = TRUE] ELSE tok

KeyOrder == <<"action", "confidence", "entry", "stop_loss", "target_cash", "reason", "raw_snippet">>

DumpMember(key, v) ==
    IF v.ty = "txt"
    THEN <<KeyTok(key), QUOTE>> \o [k \in 1..Len(v.txt) |-> Escape(v.txt[k])] \o <<QUOTE>>
    ELSE <<Member(key, v.ty, v.s, v.n)>>

\* the members of fields whose keys are KeyOrder[i..], separated by ", "
RECURSIVE DumpMembers(_, _, _)
DumpMembers(fields, i, first) ==
    IF i > Len(KeyOrder) THEN <<>>
    ELSE IF KeyOrder[i] \in DOMAIN fields
         THEN (IF first THEN <<>> ELSE <<COMMA, SP>>)
              \o DumpMember(KeyOrder[i], fields[KeyOrder[i]])
              \o DumpMembers(fields, i + 1, FALSE)
         ELSE DumpMembers(fields, i + 1, first)

JsonDumps(v) ==
    IF v.tag = "num" THEN [i \in 1..Len(v.digits) |-> NumTok(v.digits[i])]
    ELSE <<LB>> \o DumpMembers(v.fields, 1, TRUE) \o <<RB>>

(***************************************************************************)
(*                         The texts the model returns                     *)
(***************************************************************************)

MaxLen == 4

Alphabet == {LB, RB, FENCE, JSONWORD, NL, WORD, MStr("action", "BUY"), NumTok(42)}

ShortTexts == UNION {[1..n -> Alphabet] : n \in 0..MaxLen}

\* prose, then a fenced object (spec section 8, "leniency")
ExampleLeniency ==
    <<WORD, SP, WORD, SP, FENCE, JSONWORD, NL,
      LB, MStr("action", "BUY"), COMMA, MNum("confidence", 80), RB, NL, FENCE>>

\* a fenced object on its own
ExampleFenced ==
    <<FENCE, JSONWORD, NL, LB, MStr("action", "SELL"), COMMA, SP, MNum("confidence", 90),
      COMMA, SP, MNum("target_cash", 0), RB, NL, FENCE>>

\* prose of more than SnippetLen characters, without braces
ExampleLong == [i \in 1..(SnippetLen + 2) |-> IF i = 2 THEN NL ELSE WORD]

\* an object after prose that itself holds braces
ExampleBracedProse == <<LB, WORD, RB, SP, LB, MStr("action", "BUY"), RB>>

Texts == ShortTexts \cup {ExampleLeniency, ExampleFenced, ExampleLong, ExampleBracedProse}

(***************************************************************************)
(*                   execute_order: the order sizer                        *)
(***************************************************************************)

ConfidenceThreshold == 70

\* get_account_status(): the sentinel for a balance that cannot be read
CashUnknown == -1

\* lines 214-222 of get_realtime_snapshot: the snapshot built from a cached
\* quote; q.present = FALSE is a quote that is neither cached nor fetched
Snapshot(q) ==
    IF ~q.present THEN [has_mid |-> FALSE, mid_price |-> 0]
    ELSE IF q.bid > 0 /\ q.ask > 0
         THEN [has_mid |-> TRUE, mid_price |-> (q.bid + q.ask) \div 2]
         ELSE [has_mid |-> TRUE, mid_price |-> q.latest]

\* line 562: quote.get('mid_price', 0)
PriceOf(snap) == IF snap.has_mid THEN snap.mid_price ELSE 0

Min(a, b) == IF a <= b THEN a ELSE b

\* int(a / b) for b > 0: Python's int() cuts towards zero
IntDiv(a, b) == IF a >= 0 THEN a \div b ELSE -((-a) \div b)

\* a spend that trusts the suggested amount and ignores the balance, which
\* C3 tells apart
SafeCashTargetOnly(target_cash, avail_cash) == target_cash

\* lines 575-579: the spend of a BUY
SafeCash(target_cash, avail_cash) ==
    Min(target_cash, IF avail_cash = CashUnknown THEN 0 ELSE avail_cash)

\* lines 570-589: the BUY branch; ok = FALSE is an early return
BuyPlan(target_cash, avail_cash, price) ==
    LET safe_cash == SafeCash(target_cash, avail_cash)
        quantity == IntDiv(safe_cash, price)
    IN  IF safe_cash < price THEN [ok |-> FALSE, quantity |-> 0, outcome |-> "insufficient cash"]
        ELSE IF quantity = 0 THEN [ok |-> FALSE, quantity |-> 0, outcome |-> "zero shares"]
        ELSE [ok |-> TRUE, quantity |-> quantity, outcome |-> ""]

\* a SELL branch that liquidates only for an amount above the position's
\* value and never for target_cash <= 0, which C4 tells apart
SellPlanNoLiquidation(target_cash, curr_pos, price) ==
    IF curr_pos <= 0 THEN [ok |-> FALSE, quantity |-> 0, outcome |-> "no position"]
    ELSE IF target_cash >= curr_pos * price
         THEN [ok |-> TRUE, quantity |-> curr_pos, outcome |-> "liquidate"]
         ELSE LET quantity == IntDiv(target_cash, price)
              IN  [ok |-> TRUE,
                   quantity |-> IF quantity > curr_pos THEN curr_pos ELSE quantity,
                   outcome |-> "reduce"]

\* lines 592-603: the SELL branch
SellPlan(target_cash, curr_pos, price) ==
    IF curr_pos <= 0 THEN [ok |-> FALSE, quantity |-> 0, outcome |-> "no position"]
    ELSE IF target_cash <= 0 \/ target_cash >= curr_pos * price
         THEN [ok |-> TRUE, quantity |-> curr_pos, outcome |-> "liquidate"]
         ELSE LET quantity == IntDiv(target_cash, price)
              IN  [ok |-> TRUE,
                   quantity |-> IF quantity > curr_pos THEN curr_pos ELSE quantity,
                   outcome |-> "reduce"]

\* a switch that is on whatever the configuration says, which C13 tells apart
TradingAlwaysOn(env) == TRUE

\* line 551: getattr(config, 'ENABLE_TRADING', False); config.py does not
\* define the flag
TradingOn(env) == env.enabled

\* an outer handler that lets the exception leave execute_order, which C12
\* tells apart
OuterExceptPropagates(e) == "raised"

\* lines 633-635: whatever is raised between lines 555 and 631 becomes the
\* outcome string of a failed run
OuterExcept(e) == "failed"

\* lines 629-631: whatever get_contracts or place_order raises becomes the
\* outcome string of the demonstration mode
InnerExcept(e) == "demo"

\* what one call of execute_order leaves behind: the outcome string's kind,
\* whether place_order was called and with which quantity, and what it read
NoExec ==
    [called |-> FALSE, action |-> "", target_ty |-> "", target |-> 0, enabled |-> FALSE,
     curr_pos |-> 0, price |-> 0, avail |-> 0, read_cash |-> FALSE,
     sized |-> FALSE, submitted |-> FALSE, quantity |-> 0, outcome |-> ""]

\* lines 546-635.  env is what the collaborators answer during the call:
\*   enabled  config.ENABLE_TRADING            curr_pos  get_position
\*   quote    the quote behind the snapshot    avail     get_account_status
\*   broker   "ok", "no_contract" (get_contracts raises or is empty),
\*            "rejected" (place_order raises)
ExecuteOrder(action_str, target_cash, env) ==
    LET base == [NoExec EXCEPT !.called = TRUE, !.action = action_str,
                               !.target_ty = target_cash.ty, !.target = target_cash.n,
                               !.enabled = env.enabled]
        price == PriceOf(Snapshot(env.quote))
        priced == [base EXCEPT !.curr_pos = env.curr_pos, !.price = price]
        plan == IF action_str = "BUY"
                THEN BuyPlan(target_cash.n, env.avail, price)
                ELSE SellPlan(target_cash.n, env.curr_pos, price)
        withCash == IF action_str = "BUY"
                    THEN [priced EXCEPT !.avail = env.avail, !.read_cash = TRUE]
                    ELSE priced
    IN  IF ~TradingOn(env) THEN [base EXCEPT !.outcome = "trading switched off"]
        ELSE IF price <= 0 THEN [priced EXCEPT !.outcome = "no price"]
        ELSE IF action_str \notin {"BUY", "SELL"}
             THEN [priced EXCEPT !.outcome = "unknown action"]
        \* float(None), float("abc"), "abc" <= 0: caught by the outer except
        ELSE IF target_cash.ty # "num"
                /\ (action_str = "BUY" \/ env.curr_pos > 0)
             THEN [withCash EXCEPT !.outcome = OuterExcept("TypeError")]
        ELSE IF ~plan.ok THEN [withCash EXCEPT !.sized = TRUE, !.outcome = plan.outcome]
        ELSE IF env.broker = "no_contract"
             THEN [withCash EXCEPT !.sized = TRUE, !.quantity = plan.quantity,
                                   !.outcome = InnerExcept("IndexError")]
        ELSE [withCash EXCEPT !.sized = TRUE, !.quantity = plan.quantity,
                              !.submitted = TRUE,
                              !.outcome = IF env.broker = "ok" THEN "placed"
                                          ELSE InnerExcept("ApiException")]

(***************************************************************************)
(*                 run_analysis: from the model's reply on                 *)
(***************************************************************************)

\* dict.get(key, default)
Get(d, key, default) == IF key \in DOMAIN d.fields THEN d.fields[key] ELSE default

\* a gate that looks at the action alone, which C5 tells apart
TradeGateAnyConfidence(action, confidence) ==
    IF ~(action.ty = "str" /\ action.s \in {"BUY", "SELL"}) THEN "skip"
    ELSE IF confidence.ty # "num" THEN "raise"
    ELSE "trade"

\* line 521: action in ["BUY", "SELL"] and confidence >= 70
\* "raise": the comparison of a string or None with 70 is a TypeError
TradeGate(action, confidence) ==
    IF ~(action.ty = "str" /\ action.s \in {"BUY", "SELL"}) THEN "skip"
    ELSE IF confidence.ty # "num" THEN "raise"
    ELSE IF confidence.n >= ConfidenceThreshold THEN "trade"
    ELSE "skip"

\* what run_analysis gets from the data manager for a symbol:
\*   quote  "present", or "missing" (get_realtime_snapshot returned {})
\*   df_5m  "absent" (get_bars returned None), "one" (a single row),
\*          "short" (2 to 20 rows), "ok" (more than 20 rows), "unformattable"
\*          (more than 20 rows, the last Close a text or None)
\*   df_4h  "absent", "short" (at most 50 rows), "ok"
NoData == [quote |-> "", df_5m |-> "", df_4h |-> ""]

DataCases ==
    [quote : {"present", "missing"},
     df_5m : {"absent", "one", "short", "ok", "unformattable"},
     df_4h : {"absent", "short", "ok"}]

\* line 430: the format of df_5m.iloc[-1]['Close'] with .4f raises for a
\* value that is no number
LogRaises(d) == d.df_5m = "unformattable"

\* data_processor.py line 131: iloc[-2] of a frame of one row raises; the
\* line is run when the quote has no mid_price
PayloadRaises(d) == d.quote = "missing" /\ d.df_5m = "one"

\* the replies of the model that the analysis is run on: an object with or
\* without each of the three fields the trade gate reads, and other texts
ActionMembers ==
    {<<>>} \cup {<<MStr("action", a)>> : a \in {"BUY", "SELL", "WAIT", "ERROR", "HOLD"}}

ConfidenceMembers ==
    {<<>>, <<MStr("confidence", "high")>>, <<MNull("confidence")>>}
    \cup {<<MNum("confidence", c)>> : c \in {0, 69, 70, 95}}

TargetCashMembers ==
    {<<>>, <<MStr("target_cash", "all")>>, <<MNull("target_cash")>>}
    \cup {<<MNum("target_cash", c)>> : c \in {-100, 0, 100, 1000, 30000}}

\* members separated by commas
RECURSIVE Joined(_)
Joined(ms) ==
    IF ms = <<>> THEN <<>>
    ELSE IF Len(ms) = 1 THEN <<ms[1]>>
    ELSE <<ms[1], COMMA, SP>> \o Joined(Tail(ms))

ObjectTexts ==
    {<<LB>> \o Joined(a \o c \o t) \o <<RB>> :
        a \in ActionMembers, c \in ConfidenceMembers, t \in TargetCashMembers}

ReplyTexts ==
    ObjectTexts \cup {ExampleLeniency, ExampleFenced, ExampleBracedProse,
                      <<WORD, SP, WORD>>, <<NumTok(42)>>, <<>>}

\* the quotes behind the snapshot read by execute_order: none, a quote
\* without prices, a quote with a bid and an ask, a quote with a last price only
Quotes ==
    {[present |-> FALSE, bid |-> 0, ask |-> 0, latest |-> 0],
     [present |-> TRUE, bid |-> 0, ask |-> 0, latest |-> 0],
     [present |-> TRUE, bid |-> 249, ask |-> 251, latest |-> 240],
     [present |-> TRUE, bid |-> 0, ask |-> 0, latest |-> 300]}

Holdings == {0, 3, 100}

Balances == {CashUnknown, 0, 600, 1000, 100000}

Envs ==
    [enabled : BOOLEAN, curr_pos : Holdings, quote : Quotes, avail : Balances,
     broker : {"ok", "no_contract", "rejected"}]

\* the silent argument at the two call sites of run_analysis (lines 669, 690)
SilentArgs == {FALSE}

(***************************************************************************)
(*                 MarketDataManager: the ttl cache                        *)
(***************************************************************************)

\* ttl_seconds of the data manager built by init_services
ttl == 60

Symbols == {"AAPL", "TSLA"}

Kinds == {"quote", "5min", "240min"}

\* a cache slot: data names the fetch that delivered the payload, ts is the
\* time.time() of its _update_cache, derived tells whether the table has
\* been given derived columns since it was stored
NoEntry == [present |-> FALSE, data |-> 0, ts |-> 0, derived |-> FALSE]

EmptyCache == [s \in Symbols |-> [k \in Kinds |-> NoEntry]]

\* a freshness test that still accepts an entry of age ttl, which C1 tells
\* apart
FreshAtTtl(e, t) == t - e.ts <= ttl

\* line 155: time.time() - item['ts'] < self.ttl
Fresh(e, t) == t - e.ts < ttl

\* a read that serves whatever is stored, whatever its age, which C2 tells
\* apart
GetFromCacheAnyAge(c, s, k, t) ==
    IF c[s][k].present
    THEN [some |-> TRUE, data |-> c[s][k].data, ts |-> c[s][k].ts, at |-> t]
    ELSE [some |-> FALSE, data |-> 0, ts |-> 0, at |-> t]

\* lines 151-157, _get_from_cache at time t.  ts and at are kept for the
\* record: the stamp of the entry served and the time of the read.
Miss(t) == [some |-> FALSE, data |-> 0, ts |-> 0, at |-> t]

GetFromCache(c, s, k, t) ==
    IF c[s][k].present /\ Fresh(c[s][k], t)
    THEN [some |-> TRUE, data |-> c[s][k].data, ts |-> c[s][k].ts, at |-> t]
    ELSE Miss(t)

\* lines 159-165, _update_cache for every symbol the source delivered
UpdateCache(c, delivered, k, d, t) ==
    [s \in Symbols |->
        IF s \in delivered
        THEN [c[s] EXCEPT ![k] = [present |-> TRUE, data |-> d, ts |-> t, derived |-> FALSE]]
        ELSE c[s]]

\* the bookkeeping of the call in progress: the operation and its arguments,
\* the slot as it was and the time when the call was made, how many cache
\* reads, batch_fetch_all calls and source calls it has made, and whether
\* the caller has built a processor on what it returned
NoCall ==
    [op |-> "none", sym |-> "", kind |-> "", syms |-> {}, pre |-> NoEntry, at |-> 0,
     reads |-> 0, refreshes |-> 0, fetched |-> 0, processed |-> FALSE]

MaxTime == 90

TickStep == 30

MaxFetches == 6

(***************************************************************************)
(*              The main loop: commands and scan cycles                    *)
(***************************************************************************)

\* config.SCAN_INTERVAL
SCAN_INTERVAL == 300

\* a message text of the chat: a slash or none, a command word in either
\* case, letters that follow the word without a space, and the words after
\* it
Msg(slash, word, lower, suffix, args) ==
    [slash |-> slash, word |-> word, lower |-> lower, suffix |-> suffix, args |-> args]

Messages ==
    {Msg(TRUE, "TRACK", FALSE, "", <<"AAPL", "TSLA", "AAPL">>),
     Msg(TRUE, "TRACK", TRUE, "", <<"aapl">>),
     Msg(TRUE, "TRACK", FALSE, "", <<>>),
     Msg(TRUE, "TRACK", FALSE, "ER", <<"TSLA">>),
     Msg(TRUE, "CLEAR", TRUE, "", <<>>),
     Msg(TRUE, "STATUS", FALSE, "", <<"AAPL">>),
     Msg(FALSE, "TRACK", FALSE, "", <<"AAPL">>)}

\* str.upper of a symbol
Upper(x) == IF x = "aapl" THEN "AAPL" ELSE IF x = "tsla" THEN "TSLA" ELSE x

\* line 641-642: cmd.strip().upper().startswith("/TRACK"); the case and the
\* letters after the word do not matter
StartsWithTrack(m) == m.slash /\ m.word = "TRACK"

\* line 647: cmd.strip().upper() == "/CLEAR"
EqualsClear(m) == m.slash /\ m.word = "CLEAR" /\ m.suffix = "" /\ m.args = <<>>

\* the lists that list(set(...)) can give for a set
ListsOf(S) ==
    {l \in UNION {[1..n -> S] : n \in {Cardinality(S)}} :
        \A i, j \in 1..Len(l) : l[i] = l[j] => i = j}

\* lines 639-649, handle_command: the watch lists it can leave and whether
\* it returns a reply
HandleCommand(m, watch) ==
    IF StartsWithTrack(m) /\ Len(m.args) > 0
    THEN [reply |-> TRUE,
          lists |-> ListsOf({Upper(m.args[i]) : i \in 1..Len(m.args)})]
    ELSE IF ~StartsWithTrack(m) /\ EqualsClear(m)
         THEN [reply |-> TRUE, lists |-> {<<>>}]
         ELSE [reply |-> FALSE, lists |-> {watch}]

\* the ways in which run_analysis can end for a symbol: with its report or
\* alert, with the warning for missing data, with an exception caught at
\* line 540, or with an exception raised before the try block of line 435
AnalysisEnds == {"done", "skipped", "failed", "escaped"}

\* the events of a cycle
RefreshBegin(by, syms) == [ev |-> "refresh begins", by |-> by, syms |-> syms, how |-> ""]
RefreshEnd(by, syms) == [ev |-> "refresh ends", by |-> by, syms |-> syms, how |-> ""]
AnalysisBegin(s) == [ev |-> "analysis begins", by |-> "cycle", syms |-> {s}, how |-> ""]
AnalysisEnd(s, how) == [ev |-> "analysis ends", by |-> "cycle", syms |-> {s}, how |-> how]

\* the cycle in progress or last run: what started it, the list it iterates
\* over, the index of the next symbol, the clock read at line 683, its
\* events, and how it ended ("" while it runs)
NoCycle ==
    [kind |-> "none", list |-> <<>>, i |-> 1, current_time |-> 0, trail |-> <<>>,
     ended |-> ""]

NewCycle(kind, list, t) ==
    [kind |-> kind, list |-> list, i |-> 1, current_time |-> t, trail |-> <<>>,
     ended |-> ""]

NoHandled == [any |-> FALSE, msg |-> Msg(FALSE, "", FALSE, "", <<>>),
              before |-> <<>>, after |-> <<>>, reply |-> FALSE]

MaxItems == 2
MaxClock == 800
ClockStep == 400

Inboxes == UNION {[1..n -> Messages] : n \in 0..MaxItems}

\* the symbols that a watch list can hold: handle_command stores them in
\* upper case (line 640), with or without an exchange suffix
WatchSymbols == {"AAPL", "TSLA", "TSLA.HK"}

\* lines 405-406 of run_analysis: symbol.upper().strip() and then the part
\* before the first dot
CleanSymbol(s) == IF s = "TSLA.HK" THEN "TSLA" ELSE Upper(s)

\* line 171 of batch_fetch_all: the symbols in upper case, each once, the
\* suffix kept
UniqueSymbols(list) == {Upper(list[i]) : i \in 1..Len(list)}

MaxWatch == 2

WatchLists ==
    {l \in UNION {[1..n -> WatchSymbols] : n \in 1..MaxWatch} :
        \A i, j \in 1..Len(l) : l[i] = l[j] => i = j}

\* lines 167-203, batch_fetch_all(syms) at time t as one step: the caches it
\* can leave.  Each of the three source calls raises or delivers rows for
\* some of the symbols asked for, under the names they were asked by; an
\* entry stored under a name with a suffix is one that no read asks for
\* (every read is made with a clean symbol) and is not kept in the model.
\* d names the call that delivered the data: 1 for the refresh of the
\* cycle, 2 for a fallback refresh.
BatchFetchAll(c, syms, t, d) ==
    {UpdateCache(UpdateCache(UpdateCache(c, q, "quote", d, t), b5, "5min", d, t),
                 b4, "240min", d, t) :
        q \in SUBSET syms, b5 \in SUBSET syms, b4 \in SUBSET syms}

\* lines 205-211 and 224-231: a read of get_realtime_snapshot or get_bars at
\* time t, with the fallback refresh after a miss: the caches it can leave
\* and the number of batch_fetch_all calls it made
ReadThrough(c, s, k, t) ==
    IF GetFromCache(c, s, k, t).some THEN {[cache |-> c, fell |-> 0]}
    ELSE {[cache |-> x, fell |-> 1] : x \in BatchFetchAll(c, {s}, t, 2)}

\* the keys for which a refresh has left all three entries stamped t
StoredAt(c, t) ==
    {s \in Symbols : \A k \in Kinds : c[s][k].present /\ c[s][k].ts = t}

\* the event that tells for which keys the refresh of a cycle stored a
\* quote and both bar tables
Stored(keys) == [ev |-> "stored", by |-> "cycle", syms |-> keys, how |-> ""]

\* a cycle that goes straight to the analyses, which C14 tells apart
CycleFirstSkipsRefresh(kind) == "iterate"

\* lines 668 and 687: a cycle begins with batch_fetch_all(WATCH_LIST)
CycleFirst(kind) == "refresh"

(***************************************************************************)
(*                   get_analysis_payload (data_processor)                 *)
(***************************************************************************)

\* a cell of a bar frame or a value of the payload: a number, NaN, or None
Num(v) == [is |-> "num", v |-> v]
NaN == [is |-> "nan", v |-> 0]
None == [is |-> "none", v |-> 0]
Inf == [is |-> "inf", v |-> 0]

\* The bar tables are told apart by their length and by the row whose close
\* is NaN (0: none).  Prices are in hundredths; the closes rise by 0.05
\* from row to row and by 0.50 to the last row, the second-to-last being
\* 10.00.
CloseOf(n, i) == IF i = n THEN 1050 ELSE 1000 - 5 * (n - 1 - i)

\* a bar table as the data manager hands it out: no derived column
Bars(n, nan_row) ==
    [i \in 1..n |-> [Close |-> IF i = nan_row THEN NaN ELSE Num(CloseOf(n, i))]]

\* lines 90 and 149, 105 and 176: the lengths from which the indicator
\* columns are computed and above which they are read
WarmUp5 == 20
WarmUp4 == 50

\* the value of a derived column in row i
IndicatorOf(i) == 5000 + i

\* an engine that gives a table of any length its derived column, filled
\* with NaN where it is short, which C22 tells apart
ProcessIndicatorsPlaceholder(df, warm_up) ==
    [i \in 1..Len(df) |->
        [Close |-> df[i].Close,
         MACD_Hist |-> IF i < warm_up \/ df[i].Close.is # "num" THEN NaN
                       ELSE Num(IndicatorOf(i))]]

\* lines 89-102 and 104-118: a table shorter than the warm-up length is
\* left as it is (lines 90 and 105); otherwise the derived columns are
\* added, MACD_Hist standing for all of them: NaN during the warm-up and
\* where the close is NaN, and then a value of its own for each row
ProcessIndicators(df, warm_up) ==
    IF Len(df) < warm_up THEN df
    ELSE [i \in 1..Len(df) |->
            [Close |-> df[i].Close,
             MACD_Hist |-> IF i < warm_up \/ df[i].Close.is # "num" THEN NaN
                           ELSE Num(IndicatorOf(i))]]

ProcessIntradayIndicators(df) == ProcessIndicators(df, WarmUp5)

ProcessLongtermIndicators(df) == ProcessIndicators(df, WarmUp4)

\* a constructor that works on the tables it is given, which C24 tells apart
CopiesNothing(key) == FALSE

\* lines 16 and 20: data_dict[key].copy()
Copies(key) == TRUE

\* lines 11-21, MarketDataProcessor.__init__: self.data
SelfData(data_dict) ==
    [intraday |-> ProcessIntradayIndicators(data_dict.intraday),
     longterm |-> ProcessLongtermIndicators(data_dict.longterm)]

\* line 198: strftime('%Y-%m-%d %H:%M:%S') of a clock in milliseconds
\* keeps the seconds
StrfTime(t) == t \div 1000

\* lines 139 and 167: the lengths of the sequences
PriceSeqLen == 60
IndicatorSeqLen == 10

\* the series and lengths handed to _extract_seq on its own
MaxSeries == 3

Cells == {Num(100), Num(200), NaN, Inf}

SeriesCases == UNION {[1..n -> Cells] : n \in 0..MaxSeries}

Lengths == 0..MaxSeries

\* the wall clock of the payload's runs
MaxWall == 1500
WallStep == 500

Absent == <<>>

Frames5 ==
    {Absent} \cup
    {Bars(n, r) : n \in {1, 2, 3, 19, 20, 21, 25, 62}, r \in {0}}
    \cup {Bars(25, r) : r \in {23, 24, 25}}

Frames4 == {Absent} \cup {Bars(n, 0) : n \in {3, 49, 50, 51, 52}}

\* the snapshot of get_realtime_snapshot: {} or a mid_price
QuoteCases == {None, NaN, Num(1234)}

\* lines 25-47, _extract_val of a scalar: None and NaN give None
ExtractVal(x) == IF x.is = "num" THEN x ELSE None

\* lines 49-71, _extract_seq: the last length values (line 62), then those
\* of them that are neither null nor infinite (line 68).  The numbers of the
\* model have at most four decimals, which round(x, 4) leaves as they are;
\* a series that is None and one that is empty both give [] (line 58).
ExtractSeq(series, length) ==
    LET n == Len(series)
        target == SubSeq(series, IF n > length THEN n - length + 1 ELSE 1, n)
        keep == {i \in 1..Len(target) : target[i].is = "num"}
    IN  Without(target, (1..Len(target)) \ keep)

\* a frame that keeps its last row, which C20 tells apart
CompletedKeepsLast(df) == df

\* lines 138 and 158: df.iloc[:-1]
Completed(df) == SubSeq(df, 1, Len(df) - 1)

Column(df, name) == [i \in 1..Len(df) |-> df[i][name]]

\* lines 126-131: the price before _extract_val; "raise" is the IndexError
\* of iloc[-2] on a frame of one row
CurrentPrice(intraday, quote) ==
    IF ExtractVal(quote) = None /\ intraday # Absent
    THEN IF Len(intraday) >= 2
         THEN [raised |-> FALSE, v |-> intraday[Len(intraday) - 1].Close]
         ELSE [raised |-> TRUE, v |-> None]
    ELSE [raised |-> FALSE, v |-> quote]

\* lines 147-172
Indicators5m(intraday) ==
    IF intraday # Absent /\ Len(intraday) > WarmUp5
    THEN LET curr == intraday[Len(intraday) - 1]
             prev == intraday[Len(intraday) - 2]
         IN  [given |-> TRUE,
              close |-> ExtractVal(curr.Close),
              macd_hist |-> ExtractVal(curr.MACD_Hist),
              macd_hist_prev |-> ExtractVal(prev.MACD_Hist),
              macd_hist_seq_10 |->
                  ExtractSeq(Column(Completed(intraday), "MACD_Hist"), IndicatorSeqLen)]
    ELSE [given |-> FALSE, close |-> None, macd_hist |-> None,
          macd_hist_prev |-> None, macd_hist_seq_10 |-> <<>>]

\* lines 174-193
Indicators4h(longterm) ==
    IF longterm # Absent /\ Len(longterm) > WarmUp4
    THEN LET curr == longterm[Len(longterm) - 1]
         IN  [given |-> TRUE, close |-> ExtractVal(curr.Close),
              macd |-> ExtractVal(curr.MACD_Hist)]
    ELSE [given |-> FALSE, close |-> None, macd |-> None]

NoPayload ==
    [raised |-> FALSE, timestamp |-> 0, price_current |-> None, price_sequence_60 |-> <<>>,
     intraday_5m |-> Indicators5m(Absent), longterm_4h |-> Indicators4h(Absent)]

\* lines 122-207, on the tables of self.data, called at time t
GetAnalysisPayload(intraday, longterm, quote, t) ==
    LET current_price == CurrentPrice(intraday, quote)
    IN  IF current_price.raised THEN [NoPayload EXCEPT !.raised = TRUE]
        ELSE [raised |-> FALSE,
              timestamp |-> StrfTime(t),
              price_current |-> ExtractVal(current_price.v),
              price_sequence_60 |->
                  IF intraday = Absent THEN <<>>
                  ELSE ExtractSeq(Column(Completed(intraday), "Close"), PriceSeqLen),
              intraday_5m |-> Indicators5m(intraday),
              longterm_4h |-> Indicators4h(longterm)]

(***************************************************************************)
(*                                 State                                   *)
(***************************************************************************)

VARIABLES
    \* the parser on its own: the text, where the run stands, what
    \* _parse_json_response returned, whether it raised, the result written
    \* back as JSON text, and that text parsed again
    raw_text, ppc, result, parse_raised, text2, result2,
    \* one analysis cycle (run_analysis): where it stands, the silent
    \* argument, the data it read from the data manager, the model's reply,
    \* the parsed decision, the messages handed to send_telegram, what
    \* execute_order did and returned
    apc, silent, data, ai_text, parsed_res, sent, exec, trade_feedback,
    \* the data manager: the clock, the cache, the number of source calls
    \* made so far, where the call in progress stands, its bookkeeping and
    \* what it returned
    now, cache, fetches, cpc, call, ret,
    \* the main loop: the watch list, where the loop stands, the messages of
    \* the poll not yet handled, the scan cycle in progress or last run, the
    \* last message handled and what it did, the clock and the time of the
    \* last scheduled scan
    WATCH_LIST, mpc, inbox, cyc, handled, clock, last_scan_time,
    \* the payload on its own: where the run stands, the two bar tables and
    \* the snapshot handed to MarketDataProcessor, the tables of the
    \* processor, the wall clock in milliseconds, what get_analysis_payload
    \* returned, and what a second call returned
    ypc, intraday, longterm, quote_data, self_data, wall, payload, payload2,
    \* _extract_seq on its own: the series, the length, and what it returned
    series, length, extracted

pvars == <<raw_text, ppc, result, parse_raised, text2, result2>>

avars == <<apc, silent, data, ai_text, parsed_res, sent, exec, trade_feedback>>

cvars == <<now, cache, fetches, cpc, call, ret>>

mvars == <<WATCH_LIST, mpc, inbox, cyc, handled, clock, last_scan_time>>

svars == <<series, length, extracted>>

yvars == <<ypc, intraday, longterm, quote_data, self_data, wall, payload, payload2, svars>>

vars == <<pvars, avars, cvars, mvars, yvars>>

ParserIdle ==
    /\ raw_text = <<>>
    /\ ppc = "off"
    /\ result = NoneValue
    /\ parse_raised = FALSE
    /\ text2 = <<>>
    /\ result2 = NoneValue

AnalysisIdle ==
    /\ apc = "off"
    /\ silent = FALSE
    /\ data = NoData
    /\ ai_text = <<>>
    /\ parsed_res = NoneValue
    /\ sent = <<>>
    /\ exec = NoExec
    /\ trade_feedback = ""

CacheIdle ==
    /\ now = 0
    /\ cache = EmptyCache
    /\ fetches = 0
    /\ cpc = "off"
    /\ call = NoCall
    /\ ret = Miss(0)

ScanIdle ==
    /\ WATCH_LIST = <<>>
    /\ mpc = "off"
    /\ inbox = <<>>
    /\ cyc = NoCycle
    /\ handled = NoHandled
    /\ clock = 0
    /\ last_scan_time = 0

PayloadIdle ==
    /\ ypc = "off"
    /\ intraday = Absent
    /\ longterm = Absent
    /\ quote_data = None
    /\ self_data = [intraday |-> Absent, longterm |-> Absent]
    /\ wall = 0
    /\ payload = NoPayload
    /\ payload2 = NoPayload
    /\ series = <<>>
    /\ length = 0
    /\ extracted = <<>>

(***************************************************************************)
(*                 The parser applied to every bounded text                *)
(***************************************************************************)

ParseInit ==
    /\ raw_text \in Texts
    /\ ppc = "start"
    /\ result = NoneValue
    /\ parse_raised = FALSE
    /\ text2 = <<>>
    /\ result2 = NoneValue
    /\ AnalysisIdle
    /\ CacheIdle
    /\ ScanIdle
    /\ PayloadIdle

\* _parse_json_response(raw_text)
Parse ==
    /\ ppc = "start"
    /\ LET r == ParseJsonResponse(raw_text)
       IN  /\ result' = r.val
           /\ parse_raised' = r.raised
    /\ ppc' = "parsed"
    /\ UNCHANGED <<raw_text, text2, result2, avars, cvars, mvars, yvars>>

\* the decision is written back as JSON text
Reserialize ==
    /\ ppc = "parsed"
    /\ ~parse_raised
    /\ text2' = JsonDumps(result)
    /\ ppc' = "dumped"
    /\ UNCHANGED <<raw_text, result, parse_raised, result2, avars, cvars, mvars, yvars>>

\* and that text is parsed again
Reparse ==
    /\ ppc = "dumped"
    /\ result2' = ParseJsonResponse(text2).val
    /\ ppc' = "reparsed"
    /\ UNCHANGED <<raw_text, result, parse_raised, text2, avars, cvars, mvars, yvars>>

ParseNext == Parse \/ Reserialize \/ Reparse

SpecParse == ParseInit /\ [][ParseNext]_vars

(***************************************************************************)
(*                           One analysis cycle                            *)
(***************************************************************************)

Init ==
    /\ ParserIdle
    /\ apc = "start"
    /\ silent \in SilentArgs
    /\ data = NoData
    /\ ai_text = <<>>
    /\ parsed_res = NoneValue
    /\ sent = <<>>
    /\ exec = NoExec
    /\ trade_feedback = ""
    /\ CacheIdle
    /\ ScanIdle
    /\ PayloadIdle

\* lines 406-415: the snapshot and the two bar frames are read
ReadData ==
    /\ apc = "start"
    /\ data' \in DataCases
    /\ apc' = "check"
    /\ UNCHANGED <<pvars, cvars, mvars, yvars, silent, ai_text, parsed_res, sent, exec, trade_feedback>>

\* lines 417-419: without a 5-minute frame a warning is logged and None
\* returned; nothing else is looked at
DataCheck ==
    /\ apc = "check"
    /\ apc' = IF data.df_5m = "absent" THEN "skipped" ELSE "log"
    /\ UNCHANGED <<pvars, cvars, mvars, yvars, silent, data, ai_text, parsed_res, sent, exec, trade_feedback>>

\* lines 422-432, outside the try block: what formatting the last Close
\* raises leaves run_analysis
LogData ==
    /\ apc = "log"
    /\ apc' = IF ~silent /\ LogRaises(data) THEN "escaped" ELSE "process"
    /\ UNCHANGED <<pvars, cvars, mvars, yvars, silent, data, ai_text, parsed_res, sent, exec, trade_feedback>>

\* lines 437-486: the payload and the account context; what the payload
\* raises is caught at line 540
Process ==
    /\ apc = "process"
    /\ apc' = IF PayloadRaises(data) THEN "failed" ELSE "model"
    /\ UNCHANGED <<pvars, cvars, mvars, yvars, silent, data, ai_text, parsed_res, sent, exec, trade_feedback>>

\* send_telegram(msg), unless the cycle is silent
Notify(kind) == IF silent THEN sent ELSE Append(sent, kind)

\* lines 489-497: the completion call returns a text
ModelReplies ==
    /\ apc = "model"
    /\ ai_text' \in ReplyTexts
    /\ apc' = "reply"
    /\ UNCHANGED <<pvars, cvars, mvars, yvars, silent, data, parsed_res, sent, exec, trade_feedback>>

\* lines 489-497, 540-542: the completion call raises; logged, None returned
ModelFails ==
    /\ apc = "model"
    /\ apc' = "failed"
    /\ UNCHANGED <<pvars, cvars, mvars, yvars, silent, data, ai_text, parsed_res, sent, exec, trade_feedback>>

\* line 500
ParseReply ==
    /\ apc = "reply"
    /\ LET r == ParseJsonResponse(ai_text)
       IN  /\ parsed_res' = r.val
           /\ apc' = IF r.raised THEN "failed" ELSE "parsed"
    /\ UNCHANGED <<pvars, cvars, mvars, yvars, silent, data, ai_text, sent, exec, trade_feedback>>

\* an error check that lets the ERROR decision through to the trade gate and
\* the report, which C10 tells apart
ErrorBranchGoesOn(d) == IF d.tag # "dict" THEN "raise" ELSE "go on"

\* line 503: parsed_res.get('action') == 'ERROR'.  A parsed value that is no
\* dict has no get: the AttributeError is caught at line 540.
ErrorBranch(d) ==
    IF d.tag # "dict" THEN "raise"
    ELSE IF Get(d, "action", NullVal) = StrVal("ERROR") THEN "alert"
    ELSE "go on"

\* lines 503-512: the alert for a reply that could not be parsed
ErrorCheck ==
    /\ apc = "parsed"
    /\ LET b == ErrorBranch(parsed_res)
       IN  /\ apc' = CASE b = "alert" -> "done"
                       [] b = "go on" -> "gate"
                       [] OTHER -> "failed"
           /\ sent' = IF b = "alert" THEN Notify("alert") ELSE sent
    /\ UNCHANGED <<pvars, cvars, mvars, yvars, silent, data, ai_text, parsed_res, exec, trade_feedback>>

\* lines 515-523: the trade gate
Gate ==
    /\ apc = "gate"
    /\ LET g == TradeGate(Get(parsed_res, "action", StrVal("WAIT")),
                          Get(parsed_res, "confidence", NumVal(0)))
       IN  apc' = CASE g = "trade" -> "exec"
                    [] g = "skip" -> "report"
                    [] OTHER -> "failed"
    /\ UNCHANGED <<pvars, cvars, mvars, yvars, silent, data, ai_text, parsed_res, sent, exec, trade_feedback>>

\* line 523: trade_feedback = execute_order(clean_symbol, action, confidence, target_cash)
Execute ==
    /\ apc = "exec"
    /\ \E env \in Envs :
          exec' = ExecuteOrder(Get(parsed_res, "action", StrVal("WAIT")).s,
                               Get(parsed_res, "target_cash", NumVal(0)),
                               env)
    /\ trade_feedback' = IF exec'.outcome = "raised" THEN "" ELSE exec'.outcome
    \* an exception leaving execute_order would end the cycle at line 540
    /\ apc' = IF exec'.outcome = "raised" THEN "failed" ELSE "report"
    /\ UNCHANGED <<pvars, cvars, mvars, yvars, silent, data, ai_text, parsed_res, sent>>

\* lines 527-538: the report
Report ==
    /\ apc = "report"
    /\ sent' = Notify("report")
    /\ apc' = "done"
    /\ UNCHANGED <<pvars, cvars, mvars, yvars, silent, data, ai_text, parsed_res, exec, trade_feedback>>

Next ==
    \/ ReadData \/ DataCheck \/ LogData \/ Process
    \/ ModelReplies \/ ModelFails \/ ParseReply \/ ErrorCheck \/ Gate \/ Execute \/ Report

Spec == Init /\ [][Next]_vars

(***************************************************************************)
(*                    The data manager and its callers                     *)
(***************************************************************************)

CacheInit ==
    /\ ParserIdle
    /\ AnalysisIdle
    /\ ScanIdle
    /\ PayloadIdle
    /\ now = 0
    /\ cache = EmptyCache
    /\ fetches = 0
    /\ cpc = "idle"
    /\ call = NoCall
    /\ ret = Miss(0)

\* time passes, between calls and while a source call is under way
Tick ==
    /\ now + TickStep <= MaxTime
    /\ now' = now + TickStep
    /\ UNCHANGED <<pvars, avars, mvars, yvars, cache, fetches, cpc, call, ret>>

Callable == cpc \in {"idle", "returned"}

\* lines 167-172, batch_fetch_all(symbol_list) called by a scan; an empty
\* list returns at once
StartRefresh(syms) ==
    /\ Callable
    /\ call' = [NoCall EXCEPT !.op = "refresh", !.syms = syms, !.at = now,
                              !.refreshes = 1]
    /\ cpc' = IF syms = {} THEN "returned" ELSE "quotes"
    /\ ret' = Miss(now)
    /\ UNCHANGED <<pvars, avars, mvars, yvars, now, cache, fetches>>

\* lines 224-229, get_bars(symbol, period) up to the fallback fetch
StartGetBars(s, period) ==
    /\ Callable
    /\ LET got == GetFromCache(cache, s, period, now)
           c == [NoCall EXCEPT !.op = "get_bars", !.sym = s, !.kind = period,
                               !.pre = cache[s][period], !.at = now, !.reads = 1]
       IN  IF got.some
           THEN /\ ret' = got
                /\ call' = c
                /\ cpc' = "returned"
           ELSE /\ ret' = Miss(now)
                /\ call' = [c EXCEPT !.syms = {s}, !.refreshes = 1]
                /\ cpc' = "quotes"
    /\ UNCHANGED <<pvars, avars, mvars, yvars, now, cache, fetches>>

\* lines 205-210, get_realtime_snapshot(symbol) up to the fallback fetch
StartSnapshot(s) ==
    /\ Callable
    /\ LET got == GetFromCache(cache, s, "quote", now)
           c == [NoCall EXCEPT !.op = "snapshot", !.sym = s, !.kind = "quote",
                               !.pre = cache[s]["quote"], !.at = now, !.reads = 1]
       IN  IF got.some
           THEN /\ ret' = got
                /\ call' = c
                /\ cpc' = "returned"
           ELSE /\ ret' = Miss(now)
                /\ call' = [c EXCEPT !.syms = {s}, !.refreshes = 1]
                /\ cpc' = "quotes"
    /\ UNCHANGED <<pvars, avars, mvars, yvars, now, cache, fetches>>

\* a batch_fetch_all that gives up at the first source call that raises,
\* which C18 tells apart
AfterSourceGivesUp(k, raised) ==
    IF raised THEN "fetched"
    ELSE CASE k = "quote" -> "bars5"
           [] k = "5min" -> "bars240"
           [] OTHER -> "fetched"

\* lines 175-203: each source call stands in a try block of its own (lines
\* 180 and 202 catch and log), so the next one follows whether it raised or
\* not
AfterSource(k, raised) ==
    CASE k = "quote" -> "bars5"
      [] k = "5min" -> "bars240"
      [] OTHER -> "fetched"

\* handlers that catch nothing, which C17 tells apart
CatchesNothing(site) == FALSE

\* the except clauses on the way of what a source call raises: "source",
\* those of batch_fetch_all around each source call (lines 180 and 202), and
\* "fallback", those of get_realtime_snapshot and get_bars around the
\* fallback refresh (lines 212 and 231)
Catches(site) == TRUE

\* One source call of batch_fetch_all for kind k: it raises, or delivers
\* rows for some of the symbols asked for, each stored with the time of the
\* store.  What no handler catches leaves the call ("raised").
Fetch(k) ==
    /\ fetches < MaxFetches
    /\ fetches' = fetches + 1
    /\ call' = [call EXCEPT !.fetched = @ + 1]
    /\ \/ /\ cache' = cache
          /\ cpc' = IF Catches("source") THEN AfterSource(k, TRUE)
                    ELSE IF call.op # "refresh" /\ Catches("fallback") THEN "returned"
                    ELSE "raised"
       \/ /\ \E delivered \in SUBSET call.syms :
                cache' = UpdateCache(cache, delivered, k, fetches + 1, now)
          /\ cpc' = AfterSource(k, FALSE)
    /\ UNCHANGED <<pvars, avars, mvars, yvars, now, ret>>

\* lines 175-181: get_stock_briefs
FetchQuotes == cpc = "quotes" /\ Fetch("quote")

\* lines 184-203, period '5min'
FetchBars5 == cpc = "bars5" /\ Fetch("5min")

\* lines 184-203, period '240min'
FetchBars240 == cpc = "bars240" /\ Fetch("240min")

\* lines 211 and 230: after batch_fetch_all([symbol]) the cache is read once
\* more and the call returns; a scan's refresh just returns
Reread ==
    /\ cpc = "fetched"
    /\ IF call.op = "refresh"
       THEN ret' = ret /\ call' = call
       ELSE /\ ret' = GetFromCache(cache, call.sym, call.kind, now)
            /\ call' = [call EXCEPT !.reads = @ + 1]
    /\ cpc' = "returned"
    /\ UNCHANGED <<pvars, avars, mvars, yvars, now, cache, fetches>>

\* lines 436-437 of run_analysis: the table that get_bars returned, which
\* is the object held in the cache (lines 156 and 227), is handed to
\* MarketDataProcessor, which computes the indicators on its copy of it;
\* without the copy the columns would be added to the cached table
MakeProcessor ==
    /\ cpc = "returned" /\ call.op = "get_bars" /\ ret.some /\ ~call.processed
    /\ cache' = IF Copies(call.kind) THEN cache
                ELSE [cache EXCEPT ![call.sym][call.kind].derived = TRUE]
    /\ call' = [call EXCEPT !.processed = TRUE]
    /\ UNCHANGED <<pvars, avars, mvars, yvars, now, fetches, cpc, ret>>

CacheNext ==
    \/ Tick
    \/ MakeProcessor
    \/ \E syms \in SUBSET Symbols : StartRefresh(syms)
    \/ \E s \in Symbols, period \in {"5min", "240min"} : StartGetBars(s, period)
    \/ \E s \in Symbols : StartSnapshot(s)
    \/ FetchQuotes
    \/ FetchBars5
    \/ FetchBars240
    \/ Reread

SpecCache == CacheInit /\ [][CacheNext]_vars

(***************************************************************************)
(*                       The main loop, step by step                       *)
(***************************************************************************)

ScanInit ==
    /\ ParserIdle
    /\ AnalysisIdle
    /\ CacheIdle
    /\ WATCH_LIST = <<>>
    /\ mpc = "poll"
    /\ inbox = <<>>
    /\ cyc = NoCycle
    /\ handled = NoHandled
    /\ clock = 0
    /\ last_scan_time = 0
    /\ PayloadIdle

\* time.sleep(1) at line 698, as often as it takes for ClockStep seconds
Pass ==
    /\ mpc = "poll"
    /\ clock + ClockStep <= MaxClock
    /\ clock' = clock + ClockStep
    /\ UNCHANGED <<pvars, avars, cvars, yvars, WATCH_LIST, mpc, inbox, cyc, handled, last_scan_time>>

\* lines 651-659: getUpdates answers with the new messages, or with none, or
\* fails (line 670)
Poll ==
    /\ mpc = "poll"
    /\ inbox' \in Inboxes
    /\ mpc' = "items"
    /\ UNCHANGED <<pvars, avars, cvars, yvars, WATCH_LIST, cyc, handled, clock, last_scan_time>>

\* lines 660-669: the next message; a text with a slash is handed to
\* handle_command, and a reply with a watch list that is not empty starts a
\* cycle
HandleItem ==
    /\ mpc = "items" /\ inbox # <<>>
    /\ LET m == Head(inbox)
           h == IF m.slash THEN HandleCommand(m, WATCH_LIST)
                ELSE [reply |-> FALSE, lists |-> {WATCH_LIST}]
       IN  /\ WATCH_LIST' \in h.lists
           /\ handled' = [any |-> TRUE, msg |-> m, before |-> WATCH_LIST,
                          after |-> WATCH_LIST', reply |-> h.reply]
           /\ IF h.reply /\ WATCH_LIST' # <<>>
              THEN /\ mpc' = CycleFirst("command")
                   /\ cyc' = NewCycle("command", WATCH_LIST', clock)
              ELSE /\ mpc' = "items"
                   /\ cyc' = cyc
    /\ inbox' = Tail(inbox)
    /\ UNCHANGED <<pvars, avars, cvars, yvars, clock, last_scan_time>>

\* the loop of line 660 is over
EndPoll ==
    /\ mpc = "items" /\ inbox = <<>>
    /\ mpc' = "scheduled"
    /\ UNCHANGED <<pvars, avars, cvars, yvars, WATCH_LIST, inbox, cyc, handled, clock, last_scan_time>>

\* lines 683-687: the scan that is due
ScheduledCheck ==
    /\ mpc = "scheduled"
    /\ IF clock - last_scan_time > SCAN_INTERVAL /\ WATCH_LIST # <<>>
       THEN /\ mpc' = CycleFirst("scheduled")
            /\ cyc' = NewCycle("scheduled", WATCH_LIST, clock)
       ELSE /\ mpc' = "poll"
            /\ cyc' = cyc
    /\ UNCHANGED <<pvars, avars, cvars, yvars, WATCH_LIST, inbox, handled, clock, last_scan_time>>

\* lines 668 and 687: batch_fetch_all(WATCH_LIST) is called and returns; it
\* catches what the sources raise
Refresh ==
    /\ mpc = "refresh"
    /\ LET syms == {WATCH_LIST[i] : i \in 1..Len(WATCH_LIST)}
       IN  cyc' = [cyc EXCEPT !.trail = @ \o <<RefreshBegin("cycle", syms),
                                               RefreshEnd("cycle", syms)>>]
    /\ mpc' = "iterate"
    /\ UNCHANGED <<pvars, avars, cvars, yvars, WATCH_LIST, inbox, handled, clock, last_scan_time>>

\* lines 669 and 689-690: run_analysis for the next symbol of the list, with
\* or without a single-symbol refresh after a cache miss.  An exception that
\* leaves run_analysis ends the loop: in the command's cycle at line 670,
\* which also drops the messages not yet handled, in the scheduled cycle at
\* line 694, before last_scan_time is set.
Analyse ==
    /\ mpc = "iterate" /\ cyc.i <= Len(cyc.list)
    /\ \E how \in AnalysisEnds, fallback \in BOOLEAN :
          LET s == cyc.list[cyc.i]
              events == <<AnalysisBegin(s)>>
                        \o (IF fallback
                            THEN <<RefreshBegin("fallback", {s}), RefreshEnd("fallback", {s})>>
                            ELSE <<>>)
                        \o <<AnalysisEnd(s, how)>>
          IN  IF how = "escaped"
              THEN /\ cyc' = [cyc EXCEPT !.trail = @ \o events, !.ended = "aborted"]
                   /\ mpc' = IF cyc.kind = "command" THEN "scheduled" ELSE "poll"
                   /\ inbox' = <<>>
              ELSE /\ cyc' = [cyc EXCEPT !.trail = @ \o events, !.i = @ + 1]
                   /\ mpc' = mpc
                   /\ inbox' = inbox
    /\ UNCHANGED <<pvars, avars, cvars, yvars, WATCH_LIST, handled, clock, last_scan_time>>

\* the loop over the list is over; line 692 for the scheduled cycle
EndCycle ==
    /\ mpc = "iterate" /\ cyc.i > Len(cyc.list)
    /\ cyc' = [cyc EXCEPT !.ended = "complete"]
    /\ mpc' = IF cyc.kind = "command" THEN "items" ELSE "poll"
    /\ last_scan_time' = IF cyc.kind = "scheduled" THEN cyc.current_time
                         ELSE last_scan_time
    /\ UNCHANGED <<pvars, avars, cvars, yvars, WATCH_LIST, inbox, handled, clock>>

ScanNext ==
    \/ Pass \/ Poll \/ HandleItem \/ EndPoll \/ ScheduledCheck
    \/ Refresh \/ Analyse \/ EndCycle

SpecScan == ScanInit /\ [][ScanNext]_vars

(***************************************************************************)
(*               One scan cycle and the cache it reads from                *)
(***************************************************************************)

EpochInit ==
    /\ ParserIdle
    /\ AnalysisIdle
    /\ PayloadIdle
    /\ now = 0
    /\ cache = EmptyCache
    /\ fetches = 0
    /\ cpc = "off"
    /\ call = NoCall
    /\ ret = Miss(0)
    /\ WATCH_LIST \in WatchLists
    /\ mpc = "refresh"
    /\ inbox = <<>>
    /\ cyc = NewCycle("scheduled", WATCH_LIST, 0)
    /\ handled = NoHandled
    /\ clock = 0
    /\ last_scan_time = 0

\* line 687: data_manager.batch_fetch_all(WATCH_LIST)
EpochRefresh ==
    /\ mpc = "refresh"
    /\ LET syms == UniqueSymbols(WATCH_LIST)
       IN  /\ cache' \in BatchFetchAll(cache, syms, now, 1)
           /\ cyc' = [cyc EXCEPT !.trail = @ \o <<RefreshBegin("cycle", syms),
                                                   RefreshEnd("cycle", syms),
                                                   Stored(StoredAt(cache', now))>>]
    /\ fetches' = fetches + 3
    /\ mpc' = "iterate"
    /\ UNCHANGED <<pvars, avars, yvars, now, cpc, call, ret, WATCH_LIST, inbox, handled,
                   clock, last_scan_time>>

\* lines 689-690: run_analysis for the next symbol of the list.  It reads
\* the quote and the two bar tables of the clean symbol (lines 412-414),
\* each read with its fallback refresh after a miss; without a 5-minute
\* table it returns (line 417); otherwise the model is asked, which takes
\* its time, and when an order is to be sized execute_order reads the quote
\* once more (line 561).  The trail tells the refreshes of the three reads
\* ("fallback") from that of the order sizing ("sizing").
EpochAnalyse ==
    /\ mpc = "iterate" /\ cyc.i <= Len(cyc.list)
    /\ \E took \in {0, TickStep, 2 * TickStep}, trade \in BOOLEAN :
          LET s == cyc.list[cyc.i]
              clean == CleanSymbol(s)
          IN  \E r1 \in ReadThrough(cache, clean, "quote", now) :
              \E r2 \in ReadThrough(r1.cache, clean, "5min", now) :
              \E r3 \in ReadThrough(r2.cache, clean, "240min", now) :
                LET df_5m == GetFromCache(r2.cache, clean, "5min", now)
                    early == [cache |-> r3.cache, fell |-> 0]
                IN  /\ now + took <= MaxTime
                    /\ ~df_5m.some => (took = 0 /\ ~trade)
                    /\ \E r4 \in IF trade
                                  THEN ReadThrough(r3.cache, clean, "quote", now + took)
                                  ELSE {early} :
                          LET n == r1.fell + r2.fell + r3.fell
                              fallbacks ==
                                  [j \in 1..(2 * n) |->
                                      IF j % 2 = 1 THEN RefreshBegin("fallback", {clean})
                                      ELSE RefreshEnd("fallback", {clean})]
                              sizing ==
                                  IF r4.fell = 1
                                  THEN <<RefreshBegin("sizing", {clean}),
                                         RefreshEnd("sizing", {clean})>>
                                  ELSE <<>>
                          IN  /\ cache' = r4.cache
                              /\ fetches' = fetches + 3 * (n + r4.fell)
                              /\ now' = now + took
                              /\ cyc' = [cyc EXCEPT
                                            !.i = @ + 1,
                                            !.trail = @ \o <<AnalysisBegin(s)>> \o fallbacks
                                                      \o sizing
                                                      \o <<AnalysisEnd(s, IF df_5m.some THEN "done"
                                                                          ELSE "skipped")>>]
    /\ UNCHANGED <<pvars, avars, yvars, cpc, call, ret, WATCH_LIST, mpc, inbox, handled,
                   clock, last_scan_time>>

\* the loop of line 689 is over
EpochEnd ==
    /\ mpc = "iterate" /\ cyc.i > Len(cyc.list)
    /\ cyc' = [cyc EXCEPT !.ended = "complete"]
    /\ mpc' = "poll"
    /\ UNCHANGED <<pvars, avars, cvars, yvars, WATCH_LIST, inbox, handled, clock,
                   last_scan_time>>

EpochNext == EpochRefresh \/ EpochAnalyse \/ EpochEnd

SpecEpoch == EpochInit /\ [][EpochNext]_vars

(***************************************************************************)
(*                  The payload of every bounded frame                     *)
(***************************************************************************)

PayloadInit ==
    /\ ParserIdle
    /\ AnalysisIdle
    /\ CacheIdle
    /\ ScanIdle
    /\ ypc = "start"
    /\ intraday \in Frames5
    /\ longterm \in Frames4
    /\ quote_data \in QuoteCases
    /\ self_data = [intraday |-> Absent, longterm |-> Absent]
    /\ wall = 0
    /\ payload = NoPayload
    /\ payload2 = NoPayload
    /\ series = <<>>
    /\ length = 0
    /\ extracted = <<>>

\* MarketDataProcessor(data_dict, quote_data), lines 7-21: the indicators
\* are computed on copies of the tables; without the copies they would be
\* computed on the tables of the caller
NewProcessor ==
    /\ ypc = "start"
    /\ self_data' = SelfData([intraday |-> intraday, longterm |-> longterm])
    /\ intraday' = IF Copies("intraday") THEN intraday ELSE self_data'.intraday
    /\ longterm' = IF Copies("longterm") THEN longterm ELSE self_data'.longterm
    /\ ypc' = "ready"
    /\ UNCHANGED <<pvars, avars, cvars, mvars, quote_data, wall, payload, payload2, svars>>

\* time passes before a call of get_analysis_payload
Elapse ==
    /\ ypc \in {"ready", "built"}
    /\ wall + WallStep <= MaxWall
    /\ wall' = wall + WallStep
    /\ UNCHANGED <<pvars, avars, cvars, mvars, ypc, intraday, longterm, quote_data,
                   self_data, payload, payload2, svars>>

\* processor.get_analysis_payload(symbol)
BuildPayload ==
    /\ ypc = "ready"
    /\ payload' = GetAnalysisPayload(self_data.intraday, self_data.longterm,
                                     quote_data, wall)
    /\ ypc' = "built"
    /\ UNCHANGED <<pvars, avars, cvars, mvars, intraday, longterm, quote_data,
                   self_data, wall, payload2, svars>>

\* a second call with the same symbol, tables and snapshot
BuildAgain ==
    /\ ypc = "built"
    /\ payload2' = GetAnalysisPayload(self_data.intraday, self_data.longterm,
                                      quote_data, wall)
    /\ ypc' = "again"
    /\ UNCHANGED <<pvars, avars, cvars, mvars, intraday, longterm, quote_data,
                   self_data, wall, payload, svars>>

PayloadNext == NewProcessor \/ Elapse \/ BuildPayload \/ BuildAgain

SpecPayload == PayloadInit /\ [][PayloadNext]_vars

(***************************************************************************)
(*                 _extract_seq of every bounded series                    *)
(***************************************************************************)

SeqInit ==
    /\ ParserIdle
    /\ AnalysisIdle
    /\ CacheIdle
    /\ ScanIdle
    /\ ypc = "series"
    /\ intraday = Absent
    /\ longterm = Absent
    /\ quote_data = None
    /\ self_data = [intraday |-> Absent, longterm |-> Absent]
    /\ wall = 0
    /\ payload = NoPayload
    /\ payload2 = NoPayload
    /\ series \in SeriesCases
    /\ length \in Lengths
    /\ extracted = <<>>

\* self._extract_seq(series, length)
ExtractSeqCall ==
    /\ ypc = "series"
    /\ extracted' = ExtractSeq(series, length)
    /\ ypc' = "extracted"
    /\ UNCHANGED <<pvars, avars, cvars, mvars, intraday, longterm, quote_data,
                   self_data, wall, payload, payload2, series, length>>

SeqNext == ExtractSeqCall

SpecSeq == SeqInit /\ [][SeqNext]_vars

(***************************************************************************)
(*                              Properties                                 *)
(***************************************************************************)

\* the slot a get_bars or get_realtime_snapshot call is about
Slot == cache[call.sym][call.kind]

\* C1: a get_bars call made while the slot is younger than ttl returns the
\* stored data with one cache read and no source call; a call made when the
\* slot is expired or absent makes exactly one batch_fetch_all, for that
\* symbol alone (three source calls), and reads the cache exactly once more.
C1_GetBarsHitOrOneRefresh ==
    call.op = "get_bars" =>
        IF call.pre.present /\ call.at - call.pre.ts < 60
        THEN /\ cpc = "returned"
             /\ ret.some /\ ret.data = call.pre.data
             /\ Slot = call.pre
             /\ call.reads = 1 /\ call.refreshes = 0 /\ call.fetched = 0
        ELSE /\ call.refreshes = 1
             /\ call.syms = {call.sym}
             /\ call.reads = IF cpc = "returned" THEN 2 ELSE 1
             /\ call.fetched = CASE cpc = "quotes" -> 0
                                 [] cpc = "bars5" -> 1
                                 [] cpc = "bars240" -> 2
                                 [] OTHER -> 3

\* C1, reached: an expired slot, one refresh, the fresh data returned
C1_Witness ==
    /\ call.op = "get_bars" /\ cpc = "returned"
    /\ call.pre.present /\ call.at - call.pre.ts >= 60
    /\ call.refreshes = 1 /\ call.reads = 2 /\ call.fetched = 3
    /\ ret.some /\ ret.data # call.pre.data

\* C2: get_bars and get_realtime_snapshot return the slot's data exactly
\* when the slot is younger than ttl at the read that decides the call; an
\* expired slot yields nothing, like an absent one, also after a refresh
\* that delivered nothing for the symbol.
C2_NeverServesExpired ==
    (cpc = "returned" /\ call.op \in {"get_bars", "snapshot"}) =>
        /\ ret.some <=> (Slot.present /\ ret.at - Slot.ts < 60)
        /\ ret.some => (ret.data = Slot.data /\ ret.ts = Slot.ts /\ ret.at - ret.ts < 60)

\* C2, reached: the refresh after a miss left the expired slot as it was,
\* and the call returned nothing
C2_Witness ==
    /\ cpc = "returned" /\ call.op \in {"get_bars", "snapshot"}
    /\ call.refreshes = 1 /\ call.fetched = 3
    /\ call.pre.present /\ Slot = call.pre
    /\ ~ret.some

\* the decision fields as run_analysis reads them
DecidedAction == Get(parsed_res, "action", StrVal("WAIT"))
DecidedConfidence == Get(parsed_res, "confidence", NumVal(0))

\* a call of execute_order that got as far as the sizer
Sizing(side) ==
    exec.called /\ exec.enabled /\ exec.action = side /\ exec.price > 0

\* C3: a BUY spends at most min(target_cash, available cash), an unknown
\* balance counting as zero: the quantity is the floor of that spend over
\* the price, its cost exceeds neither bound, and when it is 0 no order is
\* placed and a reason is returned.
C3_BuyBounded ==
    (Sizing("BUY") /\ exec.target_ty = "num") =>
        LET avail == IF exec.avail = -1 THEN 0 ELSE exec.avail
            spend == IF exec.target <= avail THEN exec.target ELSE avail
        IN  /\ exec.read_cash
            /\ IF spend < exec.price
               THEN ~exec.submitted /\ exec.quantity = 0 /\ exec.outcome # ""
               ELSE /\ exec.sized
                    /\ exec.quantity >= 1
                    /\ exec.quantity * exec.price <= spend
                    /\ spend < (exec.quantity + 1) * exec.price
                    /\ exec.quantity * exec.price <= exec.avail
                    /\ exec.quantity * exec.price <= exec.target

\* C3, reached: target_cash 1000, price 250, 1000 available: 4 shares ordered
C3_Witness ==
    /\ Sizing("BUY") /\ exec.target = 1000 /\ exec.price = 250 /\ exec.avail = 1000
    /\ exec.submitted /\ exec.quantity = 4

\* C4: a SELL with nothing held places no order; otherwise it sells the
\* whole position when target_cash <= 0 or target_cash >= held * price, and
\* min(floor(target_cash / price), held) shares in every other case; never
\* more than is held.
C4_SellQuantity ==
    Sizing("SELL") =>
        /\ exec.curr_pos <= 0 => (~exec.submitted /\ exec.outcome = "no position")
        /\ exec.submitted => (exec.curr_pos > 0 /\ exec.quantity <= exec.curr_pos)
        /\ (exec.curr_pos > 0 /\ exec.target_ty = "num") =>
              /\ exec.sized
              /\ exec.quantity =
                    IF exec.target <= 0 \/ exec.target >= exec.curr_pos * exec.price
                    THEN exec.curr_pos
                    ELSE IF exec.target \div exec.price <= exec.curr_pos
                         THEN exec.target \div exec.price
                         ELSE exec.curr_pos

\* C4, reached: 100 shares held, target_cash 0: all 100 sold
C4_Witness ==
    /\ Sizing("SELL") /\ exec.curr_pos = 100 /\ exec.target = 0
    /\ exec.submitted /\ exec.quantity = 100

\* C5: no order is submitted in a cycle whose decision is WAIT or ERROR, or
\* whose confidence is below 70, or for which the price is not positive.
C5_NoOrderWhenSkipped ==
    /\ (DecidedAction.ty = "str" /\ DecidedAction.s \in {"WAIT", "ERROR"}) => ~exec.submitted
    /\ (DecidedConfidence.ty = "num" /\ DecidedConfidence.n < 70) => ~exec.submitted
    /\ (exec.called /\ exec.enabled /\ exec.price <= 0) => ~exec.submitted
    /\ exec.submitted =>
          /\ DecidedAction.s \in {"BUY", "SELL"}
          /\ DecidedConfidence.ty = "num" /\ DecidedConfidence.n >= 70
          /\ exec.price > 0

\* C5, reached: a BUY of confidence 69 ends with its report and no call of
\* the sizer
C5_Witness ==
    /\ apc = "done"
    /\ DecidedAction = StrVal("BUY") /\ DecidedConfidence = NumVal(69)
    /\ ~exec.called /\ sent = <<"report">>

NoBrace(text) == \A i \in 1..Len(text) : text[i].t \notin {"{", "}"}

\* C6 as claimed: for every text the parser returns, without raising, a
\* record from which action, confidence and reason can be read (a dict).
C6_AlwaysDecision ==
    ppc = "parsed" => (~parse_raised /\ result.tag = "dict")

\* C7 as claimed, for texts of at least one character: a text without any
\* brace yields action ERROR, confidence 0 and a non-empty raw_snippet of at
\* most 100 characters, the start of the text with newlines made spaces.
C7_NoBraceIsError ==
    (ppc = "parsed" /\ raw_text # <<>> /\ NoBrace(raw_text)) =>
        /\ result.tag = "dict"
        /\ DOMAIN result.fields = {"action", "confidence", "reason", "raw_snippet"}
        /\ result.fields["action"] = StrVal("ERROR")
        /\ result.fields["confidence"] = NumVal(0)
        /\ LET snip == result.fields["raw_snippet"].txt
               n == IF Len(raw_text) < 100 THEN Len(raw_text) ELSE 100
           IN  /\ Len(snip) = n /\ n >= 1
               /\ \A i \in 1..n :
                     snip[i] = IF raw_text[i] = NL THEN SP ELSE raw_text[i]

IsErrorDecision(d) ==
    /\ d.tag = "dict"
    /\ "action" \in DOMAIN d.fields
    /\ d.fields["action"] = StrVal("ERROR")
    /\ "raw_snippet" \in DOMAIN d.fields

\* C8: when the fence-stripped text is not JSON itself, the parser returns
\* what the text from its first opening brace to its last closing brace
\* parses to, and the ERROR decision only if there is no such stretch or it
\* does not parse; prose followed by a fenced {"action":"BUY","confidence":80}
\* yields action BUY, confidence 80.
C8_ExtractsEmbeddedObject ==
    ppc = "parsed" =>
        LET text == Preprocess(raw_text)
            opens == {i \in 1..Len(text) : text[i] = LB}
            closes == {i \in 1..Len(text) : text[i] = RB}
            a == CHOOSE i \in opens : \A j \in opens : i <= j
            b == CHOOSE i \in closes : \A j \in closes : j <= i
        IN  /\ ~JsonLoads(text).ok =>
                 IF opens # {} /\ closes # {} /\ a < b /\ JsonLoads(SubSeq(text, a, b)).ok
                 THEN result = JsonLoads(SubSeq(text, a, b)).val
                 ELSE IsErrorDecision(result)
            /\ raw_text = ExampleLeniency =>
                 result = DictOf([k \in {"action", "confidence"} |->
                                    IF k = "action" THEN StrVal("BUY") ELSE NumVal(80)])

\* C8, reached: the example of the specification
C8_Witness ==
    /\ ppc = "parsed" /\ raw_text = ExampleLeniency
    /\ ~JsonLoads(Preprocess(raw_text)).ok
    /\ result.tag = "dict"
    /\ result.fields["action"] = StrVal("BUY")
    /\ result.fields["confidence"] = NumVal(80)

\* C9: a decision the parser produced, written as JSON and parsed again, is
\* the same decision.
C9_RoundTrip ==
    ppc = "reparsed" => result2 = result

\* C9, reached: the ERROR decision of a text with a quote, a newline and a
\* fence in its snippet went through the round trip
C9_Witness ==
    /\ ppc = "reparsed"
    /\ raw_text = <<MStr("action", "BUY"), NL, FENCE>>
    /\ IsErrorDecision(result)
    /\ Len(text2) > Len(raw_text)
    /\ result2 = result

IsError == parsed_res.tag = "dict" /\ DecidedAction = StrVal("ERROR")

\* C10: a cycle whose decision is ERROR sends the alert and stops: the sizer
\* is not run, no order is placed, no report is sent; a WAIT decision ends
\* with the report and no alert.
C10_ErrorAlertsAndStops ==
    /\ (apc # "reply" /\ IsError) =>
          /\ apc \in {"parsed", "done"}
          /\ ~exec.called /\ ~exec.submitted
          /\ sent = IF apc = "done" THEN <<"alert">> ELSE <<>>
    /\ (parsed_res.tag = "dict" /\ DecidedAction = StrVal("WAIT")) =>
          /\ apc \in {"parsed", "gate", "report", "done"}
          /\ ~exec.called
          /\ sent = IF apc = "done" THEN <<"report">> ELSE <<>>

\* C10, reached: a reply without JSON ended in the alert alone
C10_Witness ==
    /\ apc = "done" /\ ai_text = <<WORD, SP, WORD>>
    /\ IsError /\ sent = <<"alert">> /\ ~exec.called

Actions == {"BUY", "SELL", "WAIT", "ERROR"}

\* C11 as claimed: every decision that run_analysis reads from the parser's
\* result has an action among BUY, SELL, WAIT, ERROR and a confidence that is
\* a number from 0 to 100.
C11_DecisionInRange ==
    parsed_res.tag = "dict" =>
        /\ DecidedAction.ty = "str" /\ DecidedAction.s \in Actions
        /\ DecidedConfidence.ty = "num"
        /\ DecidedConfidence.n >= 0 /\ DecidedConfidence.n <= 100

\* the outcome strings of execute_order, by kind
Outcomes ==
    {"trading switched off", "no price", "unknown action", "failed",
     "insufficient cash", "zero shares", "no position", "demo", "placed"}

\* C12: every call of execute_order returns one of its outcome strings and
\* the cycle goes on to the report: what the contract lookup or place_order
\* raises, and what the sizing arithmetic raises on an amount that is no
\* number, ends as an outcome string; so does an action that is neither BUY
\* nor SELL, for every answer of the collaborators.
C12_AlwaysAnOutcome ==
    /\ exec.called =>
          /\ exec.outcome \in Outcomes
          /\ trade_feedback = exec.outcome
          /\ apc \in {"report", "done"}
          /\ (exec.enabled /\ exec.price > 0 /\ exec.target_ty # "num"
                /\ (exec.action = "BUY" \/ exec.curr_pos > 0))
                => exec.outcome = "failed"
    /\ apc = "model" =>
          \A env \in Envs : \A a \in {"BUY", "SELL", "HOLD"} :
             \A t \in {NumVal(1000), NullVal, StrVal("all")} :
                ExecuteOrder(a, t, env).outcome \in Outcomes

\* C12, reached: a BUY whose target_cash is a text: float raises, the outcome
\* string of the failed run is returned and reported
C12_Witness ==
    /\ exec.called /\ exec.action = "BUY" /\ exec.target_ty = "str"
    /\ exec.outcome = "failed" /\ trade_feedback = "failed"
    /\ apc = "done" /\ sent = <<"report">>

\* C13: place_order is called only in a cycle in which the configuration
\* switches trading on; with the switch off or undefined execute_order
\* returns before it reads a position, a price or a balance.
C13_NoOrderUnlessEnabled ==
    /\ exec.submitted => exec.enabled
    /\ (exec.called /\ ~exec.enabled) =>
          /\ exec.outcome = "trading switched off"
          /\ ~exec.read_cash /\ ~exec.sized /\ exec.quantity = 0

\* C13, reached: a BUY of confidence 95 with the switch off ends in the
\* report without an order
C13_Witness ==
    /\ apc = "done" /\ exec.called /\ ~exec.enabled
    /\ DecidedAction = StrVal("BUY") /\ DecidedConfidence = NumVal(95)
    /\ ~exec.submitted /\ sent = <<"report">>

\* the data of the symbol is insufficient: no quote, or a bar frame that is
\* absent or not longer than its warm-up length
Insufficient(d) ==
    \/ d.quote = "missing"
    \/ d.df_5m \in {"absent", "one", "short"}
    \/ d.df_4h \in {"absent", "short"}

\* C16 as claimed: with insufficient data the cycle of the symbol ends before
\* the model is invoked: no model call, no order, no report.
C16_InsufficientDataSkips ==
    (apc \notin {"start", "off"} /\ Insufficient(data)) =>
        /\ apc \notin {"reply", "parsed", "gate", "exec", "report", "done"}
        /\ sent = <<>> /\ ~exec.called

\* the symbols of a list
Elements(l) == {l[i] : i \in 1..Len(l)}

\* C14: a cycle, scheduled or started by a command, iterates over the watch
\* list as it stands, and before the analysis of its first symbol begins
\* exactly one refresh of the whole list has begun and ended; every other
\* refresh of the cycle is the single-symbol refresh of an analysis.
C14_RefreshBeforeAnalyses ==
    cyc.kind # "none" =>
        LET t == cyc.trail
        IN  /\ cyc.ended = "" => cyc.list = WATCH_LIST
            /\ cyc.list # <<>>
            /\ (mpc = "iterate" \/ \E k \in 1..Len(t) : t[k].ev = "analysis begins") =>
                  /\ Len(t) >= 2
                  /\ t[1] = [ev |-> "refresh begins", by |-> "cycle",
                             syms |-> Elements(cyc.list), how |-> ""]
                  /\ t[2] = [ev |-> "refresh ends", by |-> "cycle",
                             syms |-> Elements(cyc.list), how |-> ""]
            /\ \A k \in 3..Len(t) : t[k].by = "cycle" => t[k].ev \in {"analysis begins", "analysis ends"}

\* C14, reached: a scheduled cycle over two symbols ran to its end, one of
\* the analyses with a refresh of its own
C14_Witness ==
    /\ cyc.kind = "scheduled" /\ cyc.ended = "complete" /\ Len(cyc.list) = 2
    /\ cyc.trail[1].ev = "refresh begins" /\ cyc.trail[1].syms = {"AAPL", "TSLA"}
    /\ \E k \in 3..Len(cyc.trail) : cyc.trail[k].by = "fallback"

\* C15 as claimed: whatever the analysis of a symbol raises, the cycle ends
\* with every symbol of its list analysed.
C15_FailureDoesNotAbort ==
    cyc.ended # "" =>
        \A i \in 1..Len(cyc.list) :
            \E k \in 1..Len(cyc.trail) :
                cyc.trail[k].ev = "analysis ends" /\ cyc.trail[k].syms = {cyc.list[i]}

\* C19 as claimed: a TRACK command with symbols makes the watch list the set
\* of these symbols (in upper case, each once), a CLEAR command empties it,
\* and every other message, a TRACK without symbols included, leaves it as
\* it was.
C19_CommandEffect ==
    handled.any =>
        LET m == handled.msg
            named(w) == m.slash /\ m.word = w /\ m.suffix = ""
        IN  IF named("TRACK") /\ Len(m.args) >= 1
            THEN /\ Elements(handled.after) = {Upper(m.args[i]) : i \in 1..Len(m.args)}
                 /\ Len(handled.after) = Cardinality(Elements(handled.after))
            ELSE IF named("CLEAR") /\ m.args = <<>>
                 THEN handled.after = <<>>
                 ELSE handled.after = handled.before

\* the position of the source call of a kind
StageOf(k) == CASE k = "quote" -> "quotes" [] k = "5min" -> "bars5" [] OTHER -> "bars240"

\* C17: a get_bars or get_realtime_snapshot call whose refresh after the miss
\* stored nothing for its slot (the sources raised or delivered nothing for
\* the symbol) comes back, after all three source calls, with the absent
\* result.
C17_FailedFallbackIsAbsent ==
    (call.op \in {"get_bars", "snapshot"} /\ call.refreshes = 1) =>
        /\ cpc # "raised"
        /\ ~ret.some => ret = [some |-> FALSE, data |-> 0, ts |-> 0, at |-> ret.at]
        /\ (cpc = "returned" /\ (~Slot.present \/ Slot = call.pre)) =>
              /\ ~ret.some
              /\ call.fetched = 3 /\ call.reads = 2

\* C17, reached: get_realtime_snapshot for a symbol never stored, none of
\* the three source calls stored anything at all, the empty snapshot returned
C17_Witness ==
    /\ call.op = "snapshot" /\ cpc = "returned"
    /\ call.refreshes = 1 /\ call.fetched = 3
    /\ \A k \in Kinds : ~cache[call.sym][k].present
    /\ ~ret.some

\* C18: in batch_fetch_all the three source calls follow one another
\* whatever each of them does: after the quote call comes the 5-minute call,
\* then the 4-hour call, then the return; a source call changes only
\* entries of its own kind for symbols asked for, which it stores with the
\* time of the store, and leaves every other entry as it was.
C18_KindsFailIndependently ==
    [][\A k \in Kinds :
          (cpc = StageOf(k) /\ cpc' # cpc) =>
              /\ cpc' = CASE k = "quote" -> "bars5"
                          [] k = "5min" -> "bars240"
                          [] OTHER -> "fetched"
              /\ call'.fetched = call.fetched + 1
              /\ \A s \in Symbols : \A j \in Kinds :
                    \/ cache'[s][j] = cache[s][j]
                    \/ /\ j = k /\ s \in call.syms
                       /\ cache'[s][j].present /\ cache'[s][j].ts = now]_vars

\* C18, reached: after a refresh the symbol has bars of one period and
\* neither a quote nor bars of the other period
C18_Witness ==
    /\ call.op = "refresh" /\ cpc = "returned" /\ call.fetched = 3
    /\ \E s \in call.syms :
          /\ ~cache[s]["quote"].present
          /\ cache[s]["5min"].present /\ cache[s]["5min"].ts >= call.at
          /\ ~cache[s]["240min"].present

\* the values of a column in the rows before the last one
Confirmed(df, name) == {df[i][name] : i \in 1..(Len(df) - 1)}

C21_SamePayloadAtAnyTime ==
    ypc = "again" => payload2 = payload

\* the columns of a table
Columns(df) == UNION {DOMAIN df[i] : i \in 1..Len(df)}

\* C22: once the processor is built, a table of fewer than 20 rows for the
\* short horizon, and of fewer than 50 rows for the long horizon, is held
\* as it was handed over, with the columns of its bars and no other, and
\* building the processor has not raised.
C22_ShortTableGetsNoColumn ==
    ypc \in {"ready", "built", "again"} =>
        /\ (intraday # Absent /\ Len(intraday) < WarmUp5) =>
              /\ self_data.intraday = intraday
              /\ Columns(self_data.intraday) = {"Close"}
        /\ (longterm # Absent /\ Len(longterm) < WarmUp4) =>
              /\ self_data.longterm = longterm
              /\ Columns(self_data.longterm) = {"Close"}

\* C22, reached: tables of 19 and of 49 rows went through the processor,
\* and so did tables of 20 and of 50 rows, which got their columns
C22_Witness ==
    /\ ypc = "ready"
    /\ Len(intraday) = 19 /\ Columns(self_data.intraday) = {"Close"}
    /\ Len(longterm) = 49 /\ Columns(self_data.longterm) = {"Close"}
    /\ Columns(ProcessIntradayIndicators(Bars(WarmUp5, 0))) = {"Close", "MACD_Hist"}
    /\ Columns(ProcessLongtermIndicators(Bars(WarmUp4, 0))) = {"Close", "MACD_Hist"}

\* the values of a series that are numbers, in their order
Defined(values) ==
    Without(values, {i \in 1..Len(values) : values[i].is # "num"})

\* the last n values of a sequence, all of them when it has fewer
LastN(values, n) ==
    SubSeq(values, IF Len(values) > n THEN Len(values) - n + 1 ELSE 1, Len(values))

\* C27 as claimed: _extract_seq(series, N) returns the last N defined values
\* of the series in their order, fewer only when the series has fewer than
\* N of them, and the empty sequence for an empty series.
C27_LastNDefined ==
    ypc = "extracted" => extracted = LastN(Defined(series), length)

\* the kind that a step of batch_fetch_all stores
KindAt(pc) ==
    CASE pc = "quotes" -> "quote"
      [] pc = "bars5" -> "5min"
      [] pc = "bars240" -> "240min"
      [] OTHER -> "none"

C25_NoEmptyOrder ==
    exec.called =>
        /\ exec.submitted => exec.quantity >= 1
        /\ (exec.sized /\ exec.quantity = 0) => ~exec.submitted

\* the analyses that a cycle has finished, in their order
AnalysesOf(trail) ==
    Without(trail, {k \in 1..Len(trail) : trail[k].ev # "analysis ends"})

\* C26 as claimed: while a cycle runs, the loop is at the cycle's refresh or
\* at its iteration and nowhere else, so that no message is polled or
\* handled, and the watch list is the list the cycle started with; and a
\* cycle that has ended has analysed the symbols of that list, each once
\* and in the order of the list.
C26_ScanNotInterleaved ==
    cyc.kind # "none" =>
        /\ cyc.ended = "" =>
              /\ mpc \in {"refresh", "iterate"}
              /\ WATCH_LIST = cyc.list
        /\ cyc.ended # "" =>
              LET ends == AnalysesOf(cyc.trail)
              IN  /\ Len(ends) = Len(cyc.list)
                  /\ \A i \in 1..Len(ends) : ends[i].syms = {cyc.list[i]}

\* C23 as claimed, for the reads with which an analysis begins: in a cycle
\* whose refresh stored the quote and both bar tables for every symbol of
\* the watch list, under the keys the analyses read, no analysis makes a
\* refresh of its own when it reads its quote and its bar tables, however
\* long the analyses before it took.
C23_OneRefreshEpoch ==
    LET t == cyc.trail
        keys == {CleanSymbol(cyc.list[i]) : i \in 1..Len(cyc.list)}
    IN  (\E k \in 1..Len(t) : t[k].ev = "stored" /\ keys \subseteq t[k].syms) =>
            \A k \in 1..Len(t) : t[k].by # "fallback"

=============================================================================
